---- MODULE Spec2Model ----
(***************************************************************************)
(* Realtime chat layer of the Joulaa backend: the ConnectionManager        *)
(* (connection registry and participant index), the WebSocketHandler       *)
(* (message router) and the /ws/chat endpoint, one asyncio task per        *)
(* websocket.  A step of the model is what one task runs between two       *)
(* suspension points (await of accept, receive_text or send_text).         *)
(***************************************************************************)
EXTENDS Integers, FiniteSets, Sequences, TLC

Users == {"u1", "u2", "u3"}
WebSockets == {"w1", "w2", "w3"}
Convs == {"c1", "c2"}
None == "None"

\* a conversation_id that is no UUID string, and a type no branch of
\* handle_message knows
NotUuid == "not-a-uuid"
UnknownType == "ping"

\* Websockets and users are interchangeable names.  Without loss of
\* generality the handshakes begin in the order of SocketOrder, and a token
\* resolves to a user seen before or to the first user of UserOrder not yet
\* seen.
SocketOrder == <<"w1", "w2", "w3">>
UserOrder == <<"u1", "u2", "u3">>
ConvOrder == <<"c1", "c2">>

\* total number of inbound events read by all sessions together: with every
\* kind of event, with join, leave and typing events only, with the
\* events answered on the sender's websocket only, and with every kind of
\* event on two websockets
MaxEvents == 2
MaxFanOutEvents == 3
MaxRouterEvents == 2
MaxSessionEvents == 3

VARIABLES
    active_connections,         \* dict user_id -> set of websockets
    conversation_participants,  \* dict conversation_id -> set of user ids
    pc,                         \* position of each session task
    user_id,                    \* the endpoint's local user_id (None until authenticated)
    alive,                      \* whether the peer of each websocket is still there
    frame,                      \* locals of the fan-out a task is suspended in
    obs,                        \* what the event being handled has done so far
    nEvents,                    \* inbound events read so far
    budget,                     \* inbound events the sessions read at most
    registered,                 \* history: <<websocket, user>> registered and not yet unregistered
    joined,                     \* history: <<conversation, user>> joined and not since left
    opened,                     \* history: websockets that have been registered
    cleanups,                   \* history: runs of the endpoint's cleanup per websocket
    utcnow,                     \* datetime.utcnow() of the integration service, in hours
    integration,                \* the stored row of one Integration
    sync,                       \* the sync_integration call under way
    seconds,                    \* datetime.utcnow() of the rate limiter, in seconds
    requests,                   \* RateLimiter.requests: dict user key -> list of times
    admitted,                   \* history: the times of the calls admitted, per user
    response                    \* the outcome of the last call of the rate limiter

\* the state of the services beside the chat layer
services == <<utcnow, integration, sync, seconds, requests, admitted, response>>

vars == <<active_connections, conversation_participants, pc, user_id, alive,
          frame, obs, nEvents, budget, services, registered, joined, opened, cleanups,
          services>>

------------------------------------------------------------------------------
(* dict helpers *)

DictSet(d, k, v) == [x \in (DOMAIN d) \cup {k} |-> IF x = k THEN v ELSE d[x]]
DictDel(d, k) == [x \in (DOMAIN d) \ {k} |-> d[x]]
EmptyDict == [x \in {} |-> {}]

------------------------------------------------------------------------------
(* ConnectionManager: connection registry *)

\* connect, after websocket.accept() has returned
connect(ac, websocket, uid) ==
    LET ac1 == IF uid \notin DOMAIN ac THEN DictSet(ac, uid, {}) ELSE ac
    IN  DictSet(ac1, uid, ac1[uid] \cup {websocket})

disconnect_keeps_empty_set(ac, websocket, uid) ==
    IF uid \in DOMAIN ac THEN DictSet(ac, uid, ac[uid] \ {websocket}) ELSE ac

disconnect(ac, websocket, uid) ==
    IF uid \in DOMAIN ac
    THEN LET ac1 == DictSet(ac, uid, ac[uid] \ {websocket})
         IN  IF ac1[uid] = {} THEN DictDel(ac1, uid) ELSE ac1
    ELSE ac

------------------------------------------------------------------------------
(* ConnectionManager: participant index *)

join_conversation(cp, uid, conversation_id) ==
    LET cp1 == IF conversation_id \notin DOMAIN cp
               THEN DictSet(cp, conversation_id, {}) ELSE cp
    IN  DictSet(cp1, conversation_id, cp1[conversation_id] \cup {uid})

leave_conversation_keeps_empty_set(cp, uid, conversation_id) ==
    IF conversation_id \in DOMAIN cp
    THEN DictSet(cp, conversation_id, cp[conversation_id] \ {uid})
    ELSE cp

leave_conversation(cp, uid, conversation_id) ==
    IF conversation_id \in DOMAIN cp
    THEN LET cp1 == DictSet(cp, conversation_id, cp[conversation_id] \ {uid})
         IN  IF cp1[conversation_id] = {} THEN DictDel(cp1, conversation_id) ELSE cp1
    ELSE cp

------------------------------------------------------------------------------
(* ConnectionManager: fan-out *)

\* send_personal_message up to its loop: the guard and the copy of the set
send_personal_message_entry_unguarded(ac, uid) ==
    IF uid \in DOMAIN ac
    THEN [kind |-> "loop", copy |-> ac[uid]]
    ELSE [kind |-> "raise", copy |-> {}]

send_personal_message_entry(ac, uid) ==
    IF uid \in DOMAIN ac
    THEN [kind |-> "loop", copy |-> ac[uid]]
    ELSE [kind |-> "return", copy |-> {}]

\* send_personal_message after its loop: discard every websocket whose send
\* failed; the subscript active_connections[user_id] raises KeyError when the
\* key has been deleted in the meantime
send_personal_message_cleanup(ac, uid, disconnected_websockets) ==
    IF disconnected_websockets = {}
    THEN [raised |-> FALSE, ac |-> ac]
    ELSE IF uid \notin DOMAIN ac
         THEN [raised |-> TRUE, ac |-> ac]
         ELSE [raised |-> FALSE,
               ac |-> DictSet(ac, uid, ac[uid] \ disconnected_websockets)]

NoCall == [user |-> None, copy |-> {}, ok |-> {}, failed |-> {},
           outcome |-> "none", left |-> {}]

NoFrame == [conv |-> None, exclude |-> None, snap |-> 0, visited |-> {},
            fresh |-> {}, detached |-> FALSE,
            user |-> None, copy |-> {}, pending |-> {}, ok |-> {}, disc |-> {}]

NoObs == [kind |-> None, conv |-> None, content |-> None, sending |-> None,
          errs |-> 0, confirms |-> 0, persist |-> 0, bcasts |-> 0,
          atCall |-> {}, called |-> {}, got |-> {}, sendFailed |-> FALSE,
          bcOutcome |-> "none", exc |-> None,
          zeroCalls |-> {}, zeroClean |-> TRUE, sp |-> NoCall,
          msg |-> None, agent |-> None, gateway |-> None, stored |-> 0,
          closeCode |-> 0]

\* what the iteration of broadcast_to_conversation does with participant y
\* before it can be suspended: skip it, suspend in a send, or raise
Visit(ac, exclude_user, y) ==
    IF y = exclude_user THEN "skip"
    ELSE LET e == send_personal_message_entry(ac, y)
         IN  IF e.kind = "raise" THEN "raise"
             ELSE IF e.kind = "return" \/ e.copy = {} THEN "skip"
             ELSE "suspend"

\* the set object a suspended iteration refers to
IterSet(cp, fr) == IF fr.detached THEN {} ELSE cp[fr.conv]

\* users in S had send_personal_message called on them while registered with
\* no connection
ZeroCalled(ob, exclude_user, S) ==
    [ob EXCEPT !.zeroCalls = @ \cup (S \ {exclude_user}),
               !.called = @ \cup (S \ {exclude_user})]

\* broadcast_to_conversation from one resumption of its for loop up to the
\* next suspension (a send to a websocket of the next participant), its
\* normal end, or an exception.  Participants are visited in the order of
\* the set, which the model leaves open.  The set iterator raises
\* RuntimeError when the size of the set differs from the size at the start
\* of the loop; a participant added meanwhile may lie before the iterator's
\* position (fresh participants may be passed over).
broadcast_advance(ac, cp, fr, ob) ==
    LET cur == IterSet(cp, fr) IN
    IF Cardinality(cur) # fr.snap
    THEN {[kind |-> "raised", frame |-> NoFrame,
           obs |-> [ob EXCEPT !.bcOutcome = "raised", !.exc = "RuntimeError"]]}
    ELSE
    LET cand == cur \ fr.visited
        skips == {y \in cand : Visit(ac, fr.exclude, y) = "skip"}
        stops == {y \in cand : Visit(ac, fr.exclude, y) = "suspend"}
        raises == {y \in cand : Visit(ac, fr.exclude, y) = "raise"}
    IN  UNION {
          UNION {
            {[kind |-> "suspend",
              frame |-> [fr EXCEPT !.visited = @ \cup T \cup S \cup {x},
                                   !.user = x,
                                   !.copy = send_personal_message_entry(ac, x).copy,
                                   !.pending = send_personal_message_entry(ac, x).copy,
                                   !.ok = {}, !.disc = {}],
              obs |-> [ZeroCalled(ob, fr.exclude, S) EXCEPT !.called = @ \cup {x}]]
               : x \in stops \ T}
            \cup
            {[kind |-> "raised", frame |-> NoFrame,
              obs |-> [ZeroCalled(ob, fr.exclude, S \cup {y}) EXCEPT
                          !.bcOutcome = "raised", !.exc = "KeyError",
                          !.zeroClean = FALSE]]
               : y \in raises \ T}
            \cup
            (IF T \cup S = cand
             THEN {[kind |-> "returned", frame |-> NoFrame,
                    obs |-> [ZeroCalled(ob, fr.exclude, S) EXCEPT
                                !.bcOutcome = "returned"]]}
             ELSE {})
            : S \in SUBSET (skips \ T)}
          : T \in SUBSET (cand \cap fr.fresh)}

\* broadcast_to_conversation from its call to the first suspension
broadcast_to_conversation(ac, cp, conversation_id, exclude_user, ob) ==
    LET ob1 == [ob EXCEPT !.bcasts = @ + 1] IN
    IF conversation_id \notin DOMAIN cp
    THEN {[kind |-> "returned", frame |-> NoFrame,
           obs |-> [ob1 EXCEPT !.bcOutcome = "returned"]]}
    ELSE broadcast_advance(ac, cp,
            [NoFrame EXCEPT !.conv = conversation_id, !.exclude = exclude_user,
                            !.snap = Cardinality(cp[conversation_id])],
            [ob1 EXCEPT !.bcOutcome = "running",
                        !.atCall = cp[conversation_id]])

------------------------------------------------------------------------------
(* websocket_chat_endpoint: handshake and cleanup *)

\* websocket w is the next one whose handshake begins; a rejected handshake
\* touches nothing the other sessions see, so it is taken to be over when
\* the next one begins
NextToOpen(w) ==
    \E i \in DOMAIN SocketOrder :
        /\ w = SocketOrder[i]
        /\ \A j \in 1..(i - 1) : pc[SocketOrder[j]] \notin {"start", "reject"}

\* a user some part of the state refers to
UserInUse(u) ==
    \/ u \in DOMAIN active_connections
    \/ \E c \in DOMAIN conversation_participants : u \in conversation_participants[c]
    \/ \E x \in WebSockets :
          \/ user_id[x] = u
          \/ u \in {frame[x].exclude, frame[x].user} \cup frame[x].visited \cup frame[x].fresh
          \/ u \in obs[x].atCall \cup obs[x].called \cup obs[x].zeroCalls \cup {obs[x].sp.user}

\* the users a token may resolve to
TokenUsers ==
    {u \in Users : UserInUse(u)} \cup
    {UserOrder[k] : k \in {i \in DOMAIN UserOrder :
        /\ ~UserInUse(UserOrder[i])
        /\ \A j \in 1..(i - 1) : UserInUse(UserOrder[j])}}

\* datetime values: None, or a time
NoTime == << >>
At(t) == <<t>>

\* the users that call a rate limited endpoint
LimitedUsers == {UserOrder[1], UserOrder[2]}

\* an Integration never synchronized, no sync_integration call, and a
\* RateLimiter as constructed
NoIntegration ==
    [is_active |-> TRUE, sync_status |-> "pending", last_sync_at |-> NoTime,
     sync_error |-> None]
NoSync ==
    [pc |-> "idle", calls |-> 0, force |-> FALSE, obj |-> NoIntegration,
     before |-> NoIntegration, setSyncing |-> FALSE, sync_started |-> FALSE,
     exc |-> None]
NoResponse == [user |-> None, status_code |-> 0, at |-> 0]

ServicesIdle ==
    /\ utcnow = 0
    /\ integration = NoIntegration
    /\ sync = NoSync
    /\ seconds = 0
    /\ requests = << >>
    /\ admitted = [u \in LimitedUsers |-> << >>]
    /\ response = NoResponse

ChatInit(b) ==
    /\ budget = b
    /\ active_connections = EmptyDict
    /\ conversation_participants = EmptyDict
    /\ pc = [w \in WebSockets |-> "start"]
    /\ user_id = [w \in WebSockets |-> None]
    /\ alive = [w \in WebSockets |-> TRUE]
    /\ frame = [w \in WebSockets |-> NoFrame]
    /\ obs = [w \in WebSockets |-> NoObs]
    /\ nEvents = 0
    /\ registered = {}
    /\ joined = {}
    /\ opened = {}
    /\ cleanups = [w \in WebSockets |-> 0]

InitWith(b) == ChatInit(b) /\ ServicesIdle

Init == InitWith(MaxEvents)

\* the finally clause of the endpoint
finally_cleanup_skipped(ac, websocket, uid) == ac

finally_cleanup(ac, websocket, uid) ==
    IF uid # None THEN disconnect(ac, websocket, uid) ELSE ac

\* the endpoint leaves its try statement: finally, then the task is over
Close(w) ==
    /\ active_connections' = finally_cleanup(active_connections, w, user_id[w])
    /\ cleanups' = [cleanups EXCEPT ![w] = IF user_id[w] # None THEN @ + 1 ELSE @]
    /\ registered' = registered \ {<<w, user_id[w]>>}
    /\ pc' = [pc EXCEPT ![w] = "closed"]
    /\ frame' = [frame EXCEPT ![w] = NoFrame]
    /\ obs' = [obs EXCEPT ![w] = NoObs]

\* the peer of an accepted websocket goes away: from now on receive_text
\* raises WebSocketDisconnect and every send on it raises
PeerGone(w) ==
    /\ pc[w] \notin {"start", "accept", "reject", "closed"}
    /\ alive[w]
    /\ alive' = [alive EXCEPT ![w] = FALSE]
    /\ UNCHANGED <<active_connections, conversation_participants, pc, user_id,
                   frame, obs, nEvents, budget, services, registered, joined, opened, cleanups>>

\* the codes of the two websocket.close calls of the authentication
CloseCodeNoToken == 4001
CloseCodeInvalidToken == 4001

\* what the endpoint closes the websocket with
auth_close(token) ==
    IF token = None
    THEN [code |-> CloseCodeNoToken, reason |-> "Authentication token required"]
    ELSE [code |-> CloseCodeInvalidToken, reason |-> "Invalid authentication token"]

\* no token, or a token that get_user_from_token resolves to no user: the
\* endpoint awaits websocket.close with user_id still None
AuthReject(w) ==
    \E token \in {None, "invalid"} :
      /\ pc[w] = "start"
      /\ NextToOpen(w)
      /\ pc' = [pc EXCEPT ![w] = "reject"]
      /\ obs' = [obs EXCEPT ![w] =
            [NoObs EXCEPT !.kind = IF token = None THEN "no_token" ELSE "bad_token",
                          !.closeCode = auth_close(token).code,
                          !.msg = auth_close(token).reason]]
      /\ UNCHANGED <<active_connections, conversation_participants, user_id, alive,
                     frame, nEvents, budget, services, registered, joined, opened, cleanups>>

\* the close is done and the endpoint returns through finally
RejectClosed(w) ==
    /\ pc[w] = "reject"
    /\ Close(w)
    /\ UNCHANGED <<conversation_participants, user_id, alive, nEvents, budget, services, joined, opened>>

\* get_user_from_token returns the user of the token
AuthOk(w) ==
    /\ pc[w] = "start"
    /\ NextToOpen(w)
    /\ \E u \in TokenUsers : user_id' = [user_id EXCEPT ![w] = u]
    /\ pc' = [pc EXCEPT ![w] = "accept"]
    /\ UNCHANGED <<active_connections, conversation_participants, alive, frame,
                   obs, nEvents, budget, services, registered, joined, opened, cleanups>>

\* connection_manager.connect: accept() returns and the websocket is added
Accept(w) ==
    /\ pc[w] = "accept"
    /\ alive[w]
    /\ active_connections' = connect(active_connections, w, user_id[w])
    /\ registered' = registered \cup {<<w, user_id[w]>>}
    /\ opened' = opened \cup {w}
    /\ pc' = [pc EXCEPT ![w] = "confirm"]
    /\ UNCHANGED <<conversation_participants, user_id, alive, frame, obs,
                   nEvents, budget, services, joined, cleanups>>

\* the peer goes away before accept() returns: accept() raises, connect
\* adds nothing, the endpoint falls to finally
AcceptFails(w) ==
    /\ pc[w] = "accept"
    /\ alive' = [alive EXCEPT ![w] = FALSE]
    /\ Close(w)
    /\ UNCHANGED <<conversation_participants, user_id, nEvents, budget, services, joined, opened>>

\* the connected confirmation is sent
Confirm(w) ==
    /\ pc[w] = "confirm"
    /\ alive[w]
    /\ pc' = [pc EXCEPT ![w] = "recv"]
    /\ UNCHANGED <<active_connections, conversation_participants, user_id, alive,
                   frame, obs, nEvents, budget, services, registered, joined, opened, cleanups>>

ConfirmFails(w) ==
    /\ pc[w] = "confirm"
    /\ ~alive[w]
    /\ Close(w)
    /\ UNCHANGED <<conversation_participants, user_id, alive, nEvents, budget, services, joined, opened>>

\* the event is handled: the loop of the endpoint comes back to receive_text
LoopBack(w) ==
    /\ pc[w] = "done"
    /\ pc' = [pc EXCEPT ![w] = "recv"]
    /\ obs' = [obs EXCEPT ![w] = NoObs]
    /\ UNCHANGED <<active_connections, conversation_participants, user_id, alive,
                   frame, nEvents, budget, services, registered, joined, opened, cleanups>>

\* receive_text raises WebSocketDisconnect: break, finally
RecvDisconnect_leaves_conversations(w) ==
    /\ pc[w] = "recv"
    /\ ~alive[w]
    /\ Close(w)
    /\ conversation_participants' =
          [c \in {d \in DOMAIN conversation_participants :
                     conversation_participants[d] \ {user_id[w]} # {}} |->
              conversation_participants[c] \ {user_id[w]}]
    /\ UNCHANGED <<user_id, alive, nEvents, budget, services, joined, opened>>

RecvDisconnect(w) ==
    /\ pc[w] = "recv"
    /\ ~alive[w]
    /\ Close(w)
    /\ UNCHANGED <<conversation_participants, user_id, alive, nEvents, budget, services, joined, opened>>

------------------------------------------------------------------------------
(* websocket_chat_endpoint: the receive loop, and WebSocketHandler *)

\* Conversation ids are interchangeable names too: an event names a
\* conversation that is in use or, of those that are not, the first of
\* ConvOrder.
ConvInUse(c) ==
    \/ c \in DOMAIN conversation_participants
    \/ \E x \in WebSockets : frame[x].conv = c \/ obs[x].conv = c

EventConvs ==
    {c \in Convs : ConvInUse(c)} \cup
    {ConvOrder[k] : k \in {i \in DOMAIN ConvOrder :
        /\ ~ConvInUse(ConvOrder[i])
        /\ \A j \in 1..(i - 1) : ConvInUse(ConvOrder[j])}}

\* receive_text returns the next inbound text of websocket w
Read_while_all_idle(w) ==
    /\ pc[w] = "recv"
    /\ alive[w]
    /\ \A x \in WebSockets \ {w} :
           pc[x] \notin {"own_send", "json_err", "loop_except", "hm_except", "sp_send"}
    /\ nEvents < budget
    /\ nEvents' = nEvents + 1
    /\ UNCHANGED <<budget, services>>

Read(w) ==
    /\ pc[w] = "recv"
    /\ alive[w]
    /\ nEvents < budget
    /\ nEvents' = nEvents + 1
    /\ UNCHANGED <<budget, services>>

\* the handler suspends in a send_text on its own websocket
OwnSendNext(w, kind, conv, what, ob) ==
    /\ obs' = [obs EXCEPT ![w] = [ob EXCEPT !.kind = kind, !.conv = conv,
                                            !.sending = what]]
    /\ pc' = [pc EXCEPT ![w] = "own_send"]

\* json.loads raises JSONDecodeError: the loop answers 'Invalid JSON format'
RecvBadJson(w) ==
    /\ Read(w)
    /\ obs' = [obs EXCEPT ![w] = [NoObs EXCEPT !.kind = "badjson", !.sending = "error",
                                               !.msg = "Invalid JSON format"]]
    /\ pc' = [pc EXCEPT ![w] = "json_err"]
    /\ UNCHANGED <<active_connections, conversation_participants, user_id, alive,
                   frame, registered, joined, opened, cleanups>>

\* valid JSON that is no object: data.get raises AttributeError before the
\* try of handle_message, the loop's except Exception answers
RecvNonObject(w) ==
    /\ Read(w)
    /\ obs' = [obs EXCEPT ![w] = [NoObs EXCEPT !.kind = "nonobject", !.sending = "error",
                                               !.exc = "AttributeError",
                                               !.msg = "Internal server error"]]
    /\ pc' = [pc EXCEPT ![w] = "loop_except"]
    /\ UNCHANGED <<active_connections, conversation_participants, user_id, alive,
                   frame, registered, joined, opened, cleanups>>

\* handle_message, else branch: _send_error("Unknown message type: ...")
RecvUnknown_ignored(w) ==
    /\ Read(w)
    /\ obs' = [obs EXCEPT ![w] = [NoObs EXCEPT !.kind = "unknown"]]
    /\ pc' = [pc EXCEPT ![w] = "done"]
    /\ UNCHANGED <<active_connections, conversation_participants, user_id, alive,
                   frame, registered, joined, opened, cleanups>>

RecvUnknown(w) ==
    /\ Read(w)
    /\ OwnSendNext(w, "unknown", None, "error",
                   [NoObs EXCEPT !.msg = "Unknown message type: " \o UnknownType])
    /\ UNCHANGED <<active_connections, conversation_participants, user_id, alive,
                   frame, registered, joined, opened, cleanups>>

\* _handle_send_message: the check of its two required fields
send_message_missing_both(conversation_id, message_content) ==
    conversation_id = None /\ message_content = None

send_message_missing(conversation_id, message_content) ==
    conversation_id = None \/ message_content = None

\* the parameters add_message declares besides self, and the keywords
\* _handle_send_message calls it with
AddMessageParameters == {"message_data", "user_id"}
AddMessageKeywords == {"conversation_id", "message_data", "user_id"}

\* the call of add_message: a keyword the function does not declare raises
\* TypeError before its body runs
add_message_call ==
    IF AddMessageKeywords \subseteq AddMessageParameters THEN "called" ELSE "TypeError"

\* UUID(conversation_id): the string is a UUID or the constructor raises
UUID(s) == IF s \in Convs THEN s ELSE "ValueError"

\* the try block of _handle_send_message as far as it gets: the arguments
\* of MessageCreate are evaluated first, then add_message is called
send_message_try(conversation_id) ==
    IF UUID(conversation_id) = "ValueError" THEN "ValueError" ELSE add_message_call

\* _handle_send_message with a field missing: one _send_error
RecvSendMessageMissing(w) ==
    \E conv \in EventConvs \cup {None}, content \in {"text", None} :
      /\ Read(w)
      /\ send_message_missing(conv, content)
      /\ OwnSendNext(w, "send_message", conv, "error",
                     [NoObs EXCEPT !.content = content,
                                   !.msg = "Missing conversation_id or message"])
      /\ UNCHANGED <<active_connections, conversation_participants, user_id, alive,
                     frame, registered, joined, opened, cleanups>>

\* _handle_send_message with both fields: MessageCreate is built and
\* add_message is called; one of the two raises, the except clause of
\* _handle_send_message sends 'Failed to send message'.  agent is the
\* agent_id of the event and gateway what stream_chat_with_agent would do
\* for it.
SendMessageFails(w, conv, content, agent, gateway) ==
      /\ Read(w)
      /\ ~send_message_missing(conv, content)
      /\ send_message_try(conv) \in {"ValueError", "TypeError"}
      /\ OwnSendNext(w, "send_message", conv, "error",
                     [NoObs EXCEPT !.content = content, !.agent = agent,
                                   !.gateway = gateway,
                                   !.persist = IF UUID(conv) = "ValueError" THEN @ ELSE @ + 1,
                                   !.exc = send_message_try(conv),
                                   !.msg = "Failed to send message"])

\* send_message without agent_id
RecvSendMessage(w) ==
    \E conv \in EventConvs \cup {None}, content \in {"text", None} :
      /\ SendMessageFails(w, conv, content, None, None)
      /\ UNCHANGED <<active_connections, conversation_participants, user_id, alive,
                     frame, registered, joined, opened, cleanups>>

\* send_message with agent_id
RecvSendMessageAgent(w) ==
    \E conv \in EventConvs, gateway \in {"completes", "raises"} :
      /\ SendMessageFails(w, conv, "text", "a1", gateway)
      /\ UNCHANGED <<active_connections, conversation_participants, user_id, alive,
                     frame, registered, joined, opened, cleanups>>

\* an agent_id for which get_agent_for_conversation would find no agent
NoSuchAgent == "a0"

\* send_message with the agent_id of no agent
RecvSendMessageNoAgent(w) ==
    \E conv \in EventConvs :
      /\ SendMessageFails(w, conv, "text", NoSuchAgent, None)
      /\ UNCHANGED <<active_connections, conversation_participants, user_id, alive,
                     frame, registered, joined, opened, cleanups>>

\* send_message with a conversation_id that is no UUID
RecvSendMessageBadId(w) ==
    /\ SendMessageFails(w, NotUuid, "text", None, None)
    /\ UNCHANGED <<active_connections, conversation_participants, user_id, alive,
                   frame, registered, joined, opened, cleanups>>

\* iterations suspended on the set of conversation c see u added to it
FramesAfterJoin(fs, cp, u, c) ==
    [x \in WebSockets |->
        IF fs[x].conv = c /\ ~fs[x].detached /\ u \notin cp[c]
        THEN [fs[x] EXCEPT !.fresh = @ \cup {u}, !.visited = @ \ {u}]
        ELSE fs[x]]

\* iterations suspended on the set of conversation c keep the set object
\* when its key is deleted
FramesAfterLeave(fs, cpNew, c) ==
    [x \in WebSockets |->
        IF fs[x].conv = c /\ ~fs[x].detached /\ c \notin DOMAIN cpNew
        THEN [fs[x] EXCEPT !.detached = TRUE]
        ELSE fs[x]]

\* _handle_join_conversation, _handle_leave_conversation or _handle_typing
\* without conversation_id: one _send_error
RecvJoinMissing(w) ==
    /\ Read(w)
    /\ OwnSendNext(w, "join_missing", None, "error",
                   [NoObs EXCEPT !.msg = "Missing conversation_id"])
    /\ UNCHANGED <<active_connections, conversation_participants, user_id, alive,
                   frame, registered, joined, opened, cleanups>>

RecvLeaveMissing(w) ==
    /\ Read(w)
    /\ OwnSendNext(w, "leave_missing", None, "error",
                   [NoObs EXCEPT !.msg = "Missing conversation_id"])
    /\ UNCHANGED <<active_connections, conversation_participants, user_id, alive,
                   frame, registered, joined, opened, cleanups>>

RecvTypingMissing(w) ==
    /\ Read(w)
    /\ OwnSendNext(w, "typing_missing", None, "error",
                   [NoObs EXCEPT !.msg = "Missing conversation_id"])
    /\ UNCHANGED <<active_connections, conversation_participants, user_id, alive,
                   frame, registered, joined, opened, cleanups>>

\* _send_success: {'type': 'success', **data}, where a key of data replaces
\* the same key written before it
send_success_event_type_first(data) ==
    [k \in {"type"} \cup DOMAIN data |-> IF k = "type" THEN "success" ELSE data[k]]

send_success_event(data) ==
    [k \in {"type"} \cup DOMAIN data |-> IF k \in DOMAIN data THEN data[k] ELSE "success"]

\* _handle_join_conversation up to its first suspension
RecvJoin(w) ==
    \E conv \in EventConvs :
      /\ Read(w)
      /\ conversation_participants' =
            join_conversation(conversation_participants, user_id[w], conv)
      /\ joined' = joined \cup {<<conv, user_id[w]>>}
      /\ frame' = FramesAfterJoin(frame, conversation_participants, user_id[w], conv)
      /\ OwnSendNext(w, "join_conversation", conv, "confirm",
            [NoObs EXCEPT !.msg = send_success_event(
                [type |-> "joined_conversation", conversation_id |-> conv]).type])
      /\ UNCHANGED <<active_connections, user_id, alive, registered, opened, cleanups>>

\* _handle_leave_conversation up to its first suspension
RecvLeave(w) ==
    \E conv \in EventConvs :
      /\ Read(w)
      /\ conversation_participants' =
            leave_conversation(conversation_participants, user_id[w], conv)
      /\ joined' = joined \ {<<conv, user_id[w]>>}
      /\ frame' = FramesAfterLeave(frame, conversation_participants', conv)
      /\ OwnSendNext(w, "leave_conversation", conv, "confirm",
            [NoObs EXCEPT !.msg = send_success_event(
                [type |-> "left_conversation", conversation_id |-> conv]).type])
      /\ UNCHANGED <<active_connections, user_id, alive, registered, opened, cleanups>>

\* where the task goes when a fan-out started by its handler has got to
\* outcome out: suspended in a send, back in the loop of the endpoint, or in the
\* except clause of handle_message
AfterFanOut(w, out) ==
    /\ frame' = [frame EXCEPT ![w] = out.frame]
    /\ obs' = [obs EXCEPT ![w] = out.obs]
    /\ pc' = [pc EXCEPT ![w] = CASE out.kind = "suspend" -> "sp_send"
                                 [] out.kind = "returned" -> "done"
                                 [] OTHER -> "hm_except"]

\* _handle_typing up to its first suspension
RecvTyping(w) ==
    \E conv \in EventConvs :
      /\ Read(w)
      /\ \E out \in broadcast_to_conversation(active_connections,
                        conversation_participants, conv, user_id[w],
                        [NoObs EXCEPT !.kind = "typing", !.conv = conv]) :
             AfterFanOut(w, out)
      /\ UNCHANGED <<active_connections, conversation_participants, user_id, alive,
                     registered, joined, opened, cleanups>>

------------------------------------------------------------------------------
(* the awaited sends *)

Delivered_nothing(ob) == [ob EXCEPT !.sending = None]

Delivered(ob) ==
    IF ob.sending = "error" THEN [ob EXCEPT !.errs = @ + 1, !.sending = None]
    ELSE [ob EXCEPT !.confirms = @ + 1, !.sending = None]

\* _send_error / _send_success inside the try of handle_message
OwnSend(w) ==
    /\ pc[w] = "own_send"
    /\ alive[w]
    /\ obs' = [obs EXCEPT ![w] = Delivered(@)]
    /\ pc' = [pc EXCEPT ![w] = "done"]
    /\ UNCHANGED <<active_connections, conversation_participants, user_id, alive,
                   frame, nEvents, budget, services, registered, joined, opened, cleanups>>

\* the send raises, the peer being gone: so does the _send_error of the
\* except clause of handle_message, and the send of the loop's except
\* Exception if the loop does not break on WebSocketDisconnect; the endpoint
\* falls to finally
OwnSendFails(w) ==
    /\ pc[w] = "own_send"
    /\ ~alive[w]
    /\ Close(w)
    /\ UNCHANGED <<conversation_participants, user_id, alive, nEvents, budget, services, joined, opened>>

\* handle_message, except clause: _send_error("Internal server error")
HmExcept_reraises(w) ==
    /\ pc[w] = "hm_except"
    /\ alive[w]
    /\ Close(w)
    /\ UNCHANGED <<conversation_participants, user_id, alive, nEvents, budget, services, joined, opened>>

HmExcept(w) ==
    /\ pc[w] = "hm_except"
    /\ alive[w]
    /\ obs' = [obs EXCEPT ![w] = Delivered([@ EXCEPT !.sending = "error",
                                                     !.msg = "Internal server error"])]
    /\ pc' = [pc EXCEPT ![w] = "done"]
    /\ UNCHANGED <<active_connections, conversation_participants, user_id, alive,
                   frame, nEvents, budget, services, registered, joined, opened, cleanups>>

\* that send raises, the peer being gone: the loop breaks on
\* WebSocketDisconnect, or its except Exception sends and raises again; the
\* endpoint falls to finally
HmExceptFails(w) ==
    /\ pc[w] = "hm_except"
    /\ ~alive[w]
    /\ Close(w)
    /\ UNCHANGED <<conversation_participants, user_id, alive, nEvents, budget, services, joined, opened>>

\* the loop's except Exception: 'Internal server error'
LoopExcept(w) ==
    /\ pc[w] = "loop_except"
    /\ alive[w]
    /\ obs' = [obs EXCEPT ![w] = Delivered(@)]
    /\ pc' = [pc EXCEPT ![w] = "done"]
    /\ UNCHANGED <<active_connections, conversation_participants, user_id, alive,
                   frame, nEvents, budget, services, registered, joined, opened, cleanups>>

\* a send that raises inside an except clause of the loop leaves the loop
LoopExceptFails(w) ==
    /\ pc[w] = "loop_except"
    /\ ~alive[w]
    /\ Close(w)
    /\ UNCHANGED <<conversation_participants, user_id, alive, nEvents, budget, services, joined, opened>>

\* the loop's except JSONDecodeError: 'Invalid JSON format'
JsonErr(w) ==
    /\ pc[w] = "json_err"
    /\ alive[w]
    /\ obs' = [obs EXCEPT ![w] = Delivered(@)]
    /\ pc' = [pc EXCEPT ![w] = "done"]
    /\ UNCHANGED <<active_connections, conversation_participants, user_id, alive,
                   frame, nEvents, budget, services, registered, joined, opened, cleanups>>

JsonErrFails(w) ==
    /\ pc[w] = "json_err"
    /\ ~alive[w]
    /\ Close(w)
    /\ UNCHANGED <<conversation_participants, user_id, alive, nEvents, budget, services, joined, opened>>

\* the record of a send_personal_message call that has ended
CallRecord(fr, outcome, ac) ==
    [user |-> fr.user, copy |-> fr.copy, ok |-> fr.ok, failed |-> fr.disc,
     outcome |-> outcome,
     left |-> IF fr.user \in DOMAIN ac THEN ac[fr.user] ELSE {}]

\* send_personal_message: one awaited send_text of its loop ends; after the
\* last one the failed websockets are discarded and the loop of
\* broadcast_to_conversation goes on
SpSend(w) ==
    /\ pc[w] = "sp_send"
    /\ \E ws \in frame[w].pending :
        LET fr == [frame[w] EXCEPT
                      !.pending = @ \ {ws},
                      !.ok = IF alive[ws] THEN @ \cup {ws} ELSE @,
                      !.disc = IF alive[ws] THEN @ ELSE @ \cup {ws}]
            ob == [obs[w] EXCEPT
                      !.got = IF alive[ws] THEN @ \cup {ws} ELSE @,
                      !.sendFailed = @ \/ ~alive[ws]]
        IN  IF fr.pending # {}
            THEN /\ frame' = [frame EXCEPT ![w] = fr]
                 /\ obs' = [obs EXCEPT ![w] = ob]
                 /\ UNCHANGED <<active_connections, pc>>
            ELSE LET r == send_personal_message_cleanup(active_connections,
                                                        fr.user, fr.disc)
                 IN  IF r.raised
                     THEN /\ AfterFanOut(w, [kind |-> "raised", frame |-> NoFrame,
                                 obs |-> [ob EXCEPT !.bcOutcome = "raised",
                                            !.exc = "KeyError",
                                            !.sp = CallRecord(fr, "raised", r.ac)]])
                          /\ UNCHANGED active_connections
                     ELSE /\ active_connections' = r.ac
                          /\ \E out \in broadcast_advance(r.ac,
                                           conversation_participants, fr,
                                           [ob EXCEPT !.sp = CallRecord(fr, "returned", r.ac)]) :
                                AfterFanOut(w, out)
    /\ UNCHANGED <<conversation_participants, user_id, alive, nEvents, budget, services,
                   registered, joined, opened, cleanups>>

------------------------------------------------------------------------------
(* specifications *)

Handshake(w) ==
    \/ PeerGone(w)
    \/ AuthReject(w)
    \/ RejectClosed(w)
    \/ AuthOk(w)
    \/ Accept(w)
    \/ AcceptFails(w)
    \/ Confirm(w)
    \/ ConfirmFails(w)
    \/ RecvDisconnect(w)

OwnEvents(w) ==
    \/ LoopBack(w)
    \/ OwnSend(w)
    \/ OwnSendFails(w)

FanOutEvents(w) ==
    \/ RecvJoin(w)
    \/ RecvLeave(w)
    \/ RecvTyping(w)
    \/ SpSend(w)
    \/ HmExcept(w)
    \/ HmExceptFails(w)

RouterEvents(w) ==
    \/ RecvBadJson(w)
    \/ RecvNonObject(w)
    \/ RecvUnknown(w)
    \/ RecvSendMessageMissing(w)
    \/ RecvSendMessage(w)
    \/ RecvJoinMissing(w)
    \/ RecvLeaveMissing(w)
    \/ RecvTypingMissing(w)
    \/ LoopExcept(w)
    \/ LoopExceptFails(w)
    \/ JsonErr(w)
    \/ JsonErrFails(w)

SendEvents(w) ==
    \/ RecvSendMessageAgent(w)
    \/ RecvSendMessageNoAgent(w)
    \/ RecvSendMessageBadId(w)

\* sessions that open and close only: register and unregister
NextRegistry == \E w \in WebSockets : Handshake(w)

SpecRegistry == InitWith(0) /\ [][NextRegistry]_vars

\* sessions whose clients send join, leave and typing events
NextFanOut == \E w \in WebSockets : Handshake(w) \/ OwnEvents(w) \/ FanOutEvents(w)

SpecFanOut == InitWith(MaxFanOutEvents) /\ [][NextFanOut]_vars

\* sessions whose clients send the events that are answered on the sender's
\* websocket alone
NextRouter == \E w \in WebSockets : Handshake(w) \/ OwnEvents(w) \/ RouterEvents(w)

SpecRouter == InitWith(MaxRouterEvents) /\ [][NextRouter]_vars

\* sessions whose clients send anything
Next ==
    \E w \in WebSockets :
        Handshake(w) \/ OwnEvents(w) \/ FanOutEvents(w) \/ RouterEvents(w)
            \/ SendEvents(w)

Spec == Init /\ [][Next]_vars

\* two sessions whose clients send anything
SessionSockets == {SocketOrder[1], SocketOrder[2]}

NextSession ==
    \E w \in SessionSockets :
        Handshake(w) \/ OwnEvents(w) \/ FanOutEvents(w) \/ RouterEvents(w)
            \/ SendEvents(w)

SpecSession == InitWith(MaxSessionEvents) /\ [][NextSession]_vars

\* what the task of websocket w does by itself once the event loop runs it:
\* every step but the arrival of an inbound text and the loss of the peer
ServerStep(w) ==
    \/ RejectClosed(w)
    \/ Accept(w) \/ Confirm(w) \/ ConfirmFails(w) \/ RecvDisconnect(w)
    \/ LoopBack(w) \/ OwnSend(w) \/ OwnSendFails(w)
    \/ SpSend(w) \/ HmExcept(w) \/ HmExceptFails(w)
    \/ LoopExcept(w) \/ LoopExceptFails(w) \/ JsonErr(w) \/ JsonErrFails(w)

\* the event loop runs every task that is ready
FairSession == SpecSession /\ \A w \in SessionSockets : WF_vars(ServerStep(w))

------------------------------------------------------------------------------
(* properties *)

RegisteredUnder(u) == {p[1] : p \in {q \in registered : q[2] = u}}
JoinedTo(c) == {p[2] : p \in {q \in joined : q[1] = c}}
SocketsOf(u) == {x \in WebSockets : user_id[x] = u}

\* C1: after any sequence of connect and disconnect the registry holds
\* exactly the websockets registered and not yet unregistered, each under
\* the user it was registered with, and no user key with an empty set.
C1_RegistryExact ==
    /\ DOMAIN active_connections = {p[2] : p \in registered}
    /\ \A u \in DOMAIN active_connections :
          /\ active_connections[u] = RegisteredUnder(u)
          /\ active_connections[u] # {}

\* a user of two websockets has had one of them unregistered and keeps the
\* other, while the only websocket of another user has been unregistered
C1_Witness ==
    \E a \in WebSockets, b \in WebSockets, c \in WebSockets :
        /\ pc[a] = "closed" /\ a \in opened /\ b \in opened /\ c \in opened
        /\ user_id[a] = user_id[b] /\ a # b
        /\ user_id[b] \in DOMAIN active_connections
        /\ active_connections[user_id[b]] = {b}
        /\ pc[c] = "closed" /\ user_id[c] # user_id[a]
        /\ user_id[c] \notin DOMAIN active_connections

\* C2: in every reachable state no user key of the registry maps to an
\* empty set, also after send_personal_message has pruned websockets.
C2_NoEmptyConnectionSet ==
    \A u \in DOMAIN active_connections : active_connections[u] # {}

\* C3: after any sequence of join and leave every conversation's set holds
\* exactly the users that joined and have not since left, and no
\* conversation key has an empty set.
C3_ParticipantsExact ==
    /\ DOMAIN conversation_participants = {p[1] : p \in joined}
    /\ \A c \in DOMAIN conversation_participants :
          /\ conversation_participants[c] = JoinedTo(c)
          /\ conversation_participants[c] # {}

\* a leave has removed the entry of its conversation while another
\* conversation keeps its participants
C3_Witness ==
    \E w \in WebSockets :
        /\ obs[w].kind = "leave_conversation"
        /\ obs[w].conv \notin DOMAIN conversation_participants
        /\ \E c \in DOMAIN conversation_participants : c # obs[w].conv

\* C4: a send failure during a broadcast never aborts the call, whatever
\* the other sessions do meanwhile.
C4_SendFailureNeverAborts ==
    \A w \in WebSockets :
        (obs[w].bcasts > 0 /\ obs[w].sendFailed) => obs[w].bcOutcome # "raised"

\* C5: no task changes the participant set of a conversation while another
\* task is suspended in the middle of iterating that set.
C5_NoMutationDuringIteration ==
    [][\A w \in WebSockets :
          (pc[w] = "sp_send" /\ ~frame[w].detached) =>
              /\ frame[w].conv \in DOMAIN conversation_participants'
              /\ conversation_participants'[frame[w].conv] =
                     conversation_participants[frame[w].conv]]_vars

\* C6: a session that was registered has its cleanup run exactly once when
\* it is closed, never before, and after that its websocket is in no set
\* of the registry.
C6_CleanupOnce ==
    \A w \in WebSockets :
        /\ cleanups[w] <= 1
        /\ pc[w] # "closed" => cleanups[w] = 0
        /\ (pc[w] = "closed" /\ w \in opened) =>
              /\ cleanups[w] = 1
              /\ \A u \in DOMAIN active_connections : w \notin active_connections[u]

\* a registered session has been closed while another one is still open
C6_Witness ==
    \E w \in WebSockets, x \in WebSockets :
        /\ pc[w] = "closed" /\ w \in opened /\ cleanups[w] = 1
        /\ pc[x] = "recv" /\ x \in opened

\* C7: a send_personal_message call on a user with several websockets, some
\* of whose sends fail, returns without error with every failed websocket
\* out of the user's set by its end.
C7_PruneAndReturn ==
    \A w \in WebSockets :
        LET c == obs[w].sp IN
        (c.outcome # "none" /\ Cardinality(c.copy) >= 2 /\ c.failed # {}) =>
            /\ c.outcome = "returned"
            /\ c.failed \cap c.left = {}
            /\ c.ok \cup c.failed = c.copy

\* C8: a broadcast that excludes user U sends nothing to a websocket of U
\* and calls send_personal_message for every other user that was a
\* participant when it was called.
C8_EveryOtherParticipant ==
    \A w \in WebSockets :
        (obs[w].bcasts > 0 /\ obs[w].bcOutcome \in {"returned", "raised"}) =>
            /\ obs[w].atCall \ {user_id[w]} \subseteq obs[w].called
            /\ obs[w].got \cap SocketsOf(user_id[w]) = {}

\* C9: send_personal_message for a user with no registered websocket
\* returns without error, sends nothing and leaves the registry as it is.
C9_NoConnectionsNoOp ==
    /\ \A w \in WebSockets : obs[w].zeroClean
    /\ \A u \in Users :
          (u \notin DOMAIN active_connections \/ active_connections[u] = {}) =>
              /\ send_personal_message_entry(active_connections, u).kind # "raise"
              /\ send_personal_message_entry(active_connections, u).copy = {}
              /\ ~send_personal_message_cleanup(active_connections, u, {}).raised
              /\ send_personal_message_cleanup(active_connections, u, {}).ac
                     = active_connections

\* a broadcast has returned after calling send_personal_message for a
\* participant without websockets only
C9_Witness ==
    \E w \in WebSockets :
        /\ obs[w].bcOutcome = "returned"
        /\ obs[w].zeroCalls # {}
        /\ obs[w].called = obs[w].zeroCalls
        /\ obs[w].got = {}

\* C10: a send_message event without conversation id or without text is
\* answered by one error on the sender's websocket (none once the peer is
\* gone) and causes no add_message call, no broadcast and no confirmation.
C10_MissingFieldOneError ==
    \A w \in WebSockets :
        (obs[w].kind = "send_message" /\ (obs[w].conv = None \/ obs[w].content = None)) =>
            /\ obs[w].persist = 0
            /\ obs[w].bcasts = 0
            /\ obs[w].got = {}
            /\ obs[w].confirms = 0
            /\ obs[w].errs <= 1
            /\ pc[w] = "done" => obs[w].errs = 1

\* a send_message event with a conversation id and no text has been answered
C10_Witness ==
    \E w \in WebSockets :
        /\ obs[w].kind = "send_message"
        /\ obs[w].conv # None /\ obs[w].content = None
        /\ pc[w] = "done" /\ obs[w].errs = 1

\* the chunks the gateway yields before it completes, and before it raises
GatewayChunks == <<"Hel", "lo">>
GatewayPartial == <<"Hel">>

\* a send_message event with a conversation id that is a UUID and a text has
\* been handled on websocket w
SendMessageHandled(w) ==
    /\ obs[w].kind = "send_message"
    /\ obs[w].conv \in Convs
    /\ obs[w].content # None
    /\ pc[w] = "done"

\* C11: a well-formed send_message without agent_id stores one user message
\* and makes one new_message broadcast, with no error and nothing else.
C11_UserMessageStoredAndBroadcast ==
    \A w \in WebSockets :
        (SendMessageHandled(w) /\ obs[w].agent = None) =>
            /\ obs[w].stored = 1
            /\ obs[w].bcasts = 1
            /\ obs[w].errs = 0

\* C12: a well-formed send_message with agent_id whose gateway yields its
\* chunks and completes stores the user message and the assistant message
\* and makes one new_message, one message_chunk per chunk and one
\* message_complete broadcast.
C12_AgentResponseStreamed ==
    \A w \in WebSockets :
        (SendMessageHandled(w) /\ obs[w].agent # None /\ obs[w].gateway = "completes") =>
            /\ obs[w].stored = 2
            /\ obs[w].bcasts = 1 + Len(GatewayChunks) + 1
            /\ obs[w].errs = 0

\* C13: when the gateway raises after some chunks the user message stays
\* stored, the chunks already broadcast stay broadcast, no assistant
\* message is stored, no message_complete is broadcast and one error is
\* sent.
C13_GatewayFailureKeepsUserMessage ==
    \A w \in WebSockets :
        (SendMessageHandled(w) /\ obs[w].agent # None /\ obs[w].gateway = "raises") =>
            /\ obs[w].stored = 1
            /\ obs[w].bcasts = 1 + Len(GatewayPartial)
            /\ obs[w].errs = 1

\* the handler of a recognized event has raised on websocket w
HandlerRaised(w) ==
    /\ obs[w].kind \in {"send_message", "join_conversation", "leave_conversation", "typing"}
    /\ obs[w].exc # None

\* C14: an exception raised while a recognized event is handled is answered
\* with one error on the sender's websocket and does not end the session:
\* while the peer is there the websocket stays registered, the task is
\* never closed, and it comes back to reading the next inbound event.
C14_ExceptionKeepsSession ==
    /\ [](\A w \in SessionSockets :
            (HandlerRaised(w) /\ alive[w]) =>
                /\ pc[w] \in {"own_send", "hm_except", "done"}
                /\ user_id[w] \in DOMAIN active_connections
                /\ w \in active_connections[user_id[w]]
                /\ obs[w].errs = (IF pc[w] = "done" THEN 1 ELSE 0))
    /\ [][\A w \in SessionSockets :
            (HandlerRaised(w) /\ alive[w]) => pc'[w] \in {"own_send", "hm_except", "done", "recv"}]_vars
    /\ \A w \in SessionSockets :
            (HandlerRaised(w) /\ alive[w]) ~> (pc[w] = "recv" \/ ~alive[w])

\* the except clause of handle_message has answered a typing event whose
\* broadcast raised, and the session can read another event
C14_Witness ==
    \E w \in SessionSockets :
        /\ obs[w].kind = "typing" /\ obs[w].exc \in {"KeyError", "RuntimeError"}
        /\ pc[w] = "done" /\ alive[w] /\ obs[w].errs = 1
        /\ obs[w].msg = "Internal server error"
        /\ w \in active_connections[user_id[w]]
        /\ nEvents < budget

\* the task of websocket w is between reading an inbound text and being
\* done with it
Handling(w) == pc[w] \in {"own_send", "json_err", "loop_except", "hm_except", "sp_send"}

\* events delivered on websocket w in answer to the inbound text being handled
Answers(w) == obs[w].errs + obs[w].confirms

\* C15: every inbound text read on a websocket whose peer stays is handled
\* to its end, and at that end the websocket has got one confirmation or
\* one error for it, unless it was a typing event that raised nothing.
C15_EveryRequestAnswered ==
    /\ [](\A w \in SessionSockets :
            pc[w] = "done" =>
                IF obs[w].kind = "typing" /\ obs[w].exc = None
                THEN Answers(w) = 0
                ELSE Answers(w) = 1)
    /\ \A w \in SessionSockets : Handling(w) ~> (pc[w] = "done" \/ ~alive[w])

\* two senders of send_message to the same conversation have been answered,
\* one that has joined it and one that has not
C15_Witness ==
    \E w \in SessionSockets, x \in SessionSockets :
        /\ pc[w] = "done" /\ pc[x] = "done"
        /\ obs[w].kind = "send_message" /\ obs[x].kind = "send_message"
        /\ obs[w].conv = obs[x].conv
        /\ obs[w].conv \in DOMAIN conversation_participants
        /\ user_id[w] \in conversation_participants[obs[w].conv]
        /\ user_id[x] \notin conversation_participants[obs[w].conv]
        /\ Answers(w) = 1 /\ Answers(x) = 1

\* C16: an inbound event of a type handle_message does not know is
\* answered with one error that names the type, on the sender's websocket
\* only, and does nothing else: no add_message call, no broadcast, no
\* change of the registry or of the participant index.
C16_UnknownTypeOneError ==
    /\ [](\A w \in WebSockets :
            obs[w].kind = "unknown" =>
                /\ obs[w].msg = "Unknown message type: " \o UnknownType
                /\ obs[w].errs = (IF pc[w] = "done" THEN 1 ELSE 0)
                /\ obs[w].confirms = 0
                /\ obs[w].persist = 0 /\ obs[w].stored = 0
                /\ obs[w].bcasts = 0 /\ obs[w].got = {}
                /\ frame[w] = NoFrame)
    /\ [][\A w \in WebSockets :
            (obs'[w].kind = "unknown" /\ pc'[w] # pc[w]) =>
                /\ active_connections' = active_connections
                /\ conversation_participants' = conversation_participants]_vars

\* an event of unknown type has been answered
C16_Witness ==
    \E w \in WebSockets :
        /\ obs[w].kind = "unknown" /\ pc[w] = "done"
        /\ obs[w].errs = 1
        /\ obs[w].msg = "Unknown message type: ping"

\* the error texts that tell the client its payload is malformed
FormatErrors == {"Invalid JSON format"}

\* C17: an inbound text that is no JSON, or JSON that is no object, is
\* answered with an error that describes a format problem, and the
\* websocket stays open and registered.
C17_MalformedPayloadFormatError ==
    \A w \in WebSockets :
        (obs[w].kind \in {"badjson", "nonobject"} /\ pc[w] = "done") =>
            /\ obs[w].errs = 1
            /\ obs[w].msg \in FormatErrors
            /\ alive[w] => w \in active_connections[user_id[w]]

\* C18: a handshake that fails authentication never gets its websocket
\* registered, and the code it is closed with when no token was given
\* differs from the code used for a token that resolves to no user.
C18_RejectCodesDiffer ==
    \A w \in WebSockets :
        /\ user_id[w] = None => (w \notin opened /\ \A u \in DOMAIN active_connections :
                                                    w \notin active_connections[u])
        /\ (pc[w] = "reject" /\ obs[w].kind = "no_token") =>
               obs[w].closeCode # auth_close("invalid").code
        /\ (pc[w] = "reject" /\ obs[w].kind = "bad_token") =>
               obs[w].closeCode # auth_close(None).code

Begins(w, k) == pc[w] = "recv" /\ pc'[w] # "recv" /\ obs'[w].kind = k

\* the participant index away from conversation c stays as it is
OtherConversationsKept(c) ==
    /\ DOMAIN conversation_participants' \ {c} = DOMAIN conversation_participants \ {c}
    /\ \A d \in DOMAIN conversation_participants \ {c} :
          conversation_participants'[d] = conversation_participants[d]

\* C20: join_conversation with a conversation id adds the sender's user to
\* the set of that conversation and sends one joined_conversation event on
\* the sender's websocket only; leave_conversation removes the user and
\* sends one left_conversation; without a conversation id either sends one
\* error and leaves the participant index as it is.
C20_JoinLeaveConfirmed ==
    /\ [](\A w \in SessionSockets :
            /\ obs[w].kind \in {"join_conversation", "leave_conversation"} =>
                  /\ obs[w].conv # None
                  /\ obs[w].msg = (IF obs[w].kind = "join_conversation"
                                   THEN "joined_conversation" ELSE "left_conversation")
                  /\ obs[w].confirms = (IF pc[w] = "done" THEN 1 ELSE 0)
                  /\ obs[w].errs = 0 /\ obs[w].bcasts = 0 /\ obs[w].got = {}
            /\ obs[w].kind \in {"join_missing", "leave_missing"} =>
                  /\ obs[w].msg = "Missing conversation_id"
                  /\ obs[w].errs = (IF pc[w] = "done" THEN 1 ELSE 0)
                  /\ obs[w].confirms = 0 /\ obs[w].bcasts = 0 /\ obs[w].got = {})
    /\ [][\A w \in SessionSockets :
            /\ Begins(w, "join_conversation") =>
                  /\ obs'[w].conv \in DOMAIN conversation_participants'
                  /\ conversation_participants'[obs'[w].conv] =
                        (IF obs'[w].conv \in DOMAIN conversation_participants
                         THEN conversation_participants[obs'[w].conv] ELSE {})
                        \cup {user_id[w]}
                  /\ OtherConversationsKept(obs'[w].conv)
            /\ Begins(w, "leave_conversation") =>
                  /\ \/ obs'[w].conv \notin DOMAIN conversation_participants'
                     \/ user_id[w] \notin conversation_participants'[obs'[w].conv]
                  /\ OtherConversationsKept(obs'[w].conv)
            /\ (Begins(w, "join_missing") \/ Begins(w, "leave_missing")) =>
                  conversation_participants' = conversation_participants]_vars

\* a join and a leave have been confirmed, the joiner is a participant and
\* the leaver is not
C20_Witness ==
    \E w \in SessionSockets, x \in SessionSockets :
        /\ obs[w].kind = "join_conversation" /\ pc[w] = "done"
        /\ obs[w].confirms = 1 /\ obs[w].msg = "joined_conversation"
        /\ obs[w].conv \in DOMAIN conversation_participants
        /\ user_id[w] \in conversation_participants[obs[w].conv]
        /\ obs[x].kind = "leave_conversation" /\ pc[x] = "done"
        /\ obs[x].confirms = 1 /\ obs[x].msg = "left_conversation"
        /\ obs[x].conv = obs[w].conv
        /\ user_id[x] \notin conversation_participants[obs[w].conv]

\* C21: a typing event with a conversation id is handled by one broadcast
\* that calls send_personal_message for every participant but the sender's
\* user, with no add_message call, nothing delivered on a websocket of the
\* sender's user, no event on the sender's own websocket, and the
\* participant index as it was.
C21_TypingBroadcastOnly ==
    \A w \in WebSockets :
        (obs[w].kind = "typing" /\ pc[w] = "done") =>
            /\ obs[w].bcasts = 1
            /\ obs[w].atCall \ {user_id[w]} \subseteq obs[w].called
            /\ obs[w].got \cap SocketsOf(user_id[w]) = {}
            /\ obs[w].persist = 0
            /\ obs[w].errs = 0 /\ obs[w].confirms = 0

\* C23: closing a session, and with it unregistering its websocket, leaves
\* the participant index as it is; only the first step of a
\* join_conversation or leave_conversation event changes it.
C23_ParticipationOutlivesConnections ==
    [][/\ (\E w \in WebSockets : pc[w] # "closed" /\ pc'[w] = "closed") =>
              conversation_participants' = conversation_participants
       /\ active_connections' # active_connections =>
              conversation_participants' = conversation_participants
       /\ conversation_participants' # conversation_participants =>
              \E w \in WebSockets :
                  Begins(w, "join_conversation") \/ Begins(w, "leave_conversation")]_vars

\* a user that joined a conversation has no websocket left, all its
\* sessions being closed, and is still a participant
C23_Witness ==
    \E w \in WebSockets, c \in DOMAIN conversation_participants :
        /\ pc[w] = "closed" /\ w \in opened
        /\ user_id[w] \in conversation_participants[c]
        /\ user_id[w] \notin DOMAIN active_connections
        /\ \A x \in SocketsOf(user_id[w]) : pc[x] = "closed"

\* C24: the task of a websocket reads an inbound text only from its
\* receive_text, with nothing of an earlier event left, and comes back to
\* receive_text only when the event is handled; a step belongs to one task and
\* reads at most one text; and while one task is suspended in a send, every
\* other task that can take a step or has an inbound text to read is free to.
C24_OneEventAtATime ==
    /\ [](\A w \in WebSockets :
            pc[w] = "recv" => obs[w] = NoObs /\ frame[w] = NoFrame)
    /\ [][/\ Cardinality({w \in WebSockets : pc'[w] # pc[w]}) <= 1
          /\ nEvents' \in {nEvents, nEvents + 1}
          /\ \A w \in WebSockets :
                /\ obs'[w].kind \notin {obs[w].kind, None} =>
                      /\ pc[w] \in {"start", "recv"}
                      /\ pc[w] = "recv" => nEvents' = nEvents + 1
                /\ (pc'[w] = "recv" /\ pc[w] # "recv") =>
                      pc[w] \in {"confirm", "done"}]_vars
    /\ [](\A w, x \in SessionSockets :
            (w # x /\ Handling(w)) =>
                /\ Handling(x) => ENABLED ServerStep(x)
                /\ pc[x] = "done" => ENABLED LoopBack(x)
                /\ (pc[x] = "recv" /\ alive[x] /\ nEvents < budget) =>
                      /\ ENABLED RecvJoin(x)
                      /\ ENABLED RecvTyping(x)
                      /\ ENABLED RecvSendMessageAgent(x))

\* while one task is suspended in a send of its typing broadcast, another
\* task has read a leave_conversation event and handled it to its end: its
\* user, a participant when the broadcast began, is none now
C24_Witness ==
    \E w, x \in SessionSockets :
        /\ w # x
        /\ pc[w] = "sp_send" /\ obs[w].kind = "typing"
        /\ pc[x] = "done" /\ obs[x].kind = "leave_conversation"
        /\ obs[x].conv = obs[w].conv
        /\ obs[x].confirms = 1
        /\ user_id[x] \in obs[w].atCall
        /\ \A c \in DOMAIN conversation_participants :
              user_id[x] \notin conversation_participants[c]

------------------------------------------------------------------------------
(* get_active_connections: the report of the registry *)

RECURSIVE SumLen(_, _)
\* sum(len(connections) for connections in active_connections.values())
SumLen(ac, us) ==
    IF us = {} THEN 0
    ELSE LET u == CHOOSE v \in us : TRUE
         IN  Cardinality(ac[u]) + SumLen(ac, us \ {u})

\* the response of GET /connections for a caller that is, or is not, an admin
get_active_connections(ac, cp, is_admin) ==
    IF ~is_admin
    THEN [status_code |-> 403, detail |-> "Admin access required"]
    ELSE [status_code |-> 200,
          total_users_connected |-> Cardinality(DOMAIN ac),
          total_connections |-> SumLen(ac, DOMAIN ac),
          active_conversations |-> Cardinality(DOMAIN cp),
          connection_details |-> [u \in DOMAIN ac |-> Cardinality(ac[u])]]

------------------------------------------------------------------------------
(* IntegrationService.sync_integration, one call after another on one       *)
(* Integration.  A step is what the call runs between two awaits.            *)

\* hours of the clock, and calls of sync_integration
MaxClock == 3
MaxSyncCalls == 2

\* timedelta(hours=1) of needs_sync
SyncIntervalHours == 1

chat == <<active_connections, conversation_participants, pc, user_id, alive,
          frame, obs, nEvents, budget, registered, joined, opened, cleanups>>
limiter == <<seconds, requests, admitted, response>>

\* Integration.needs_sync
needs_sync(i, now) ==
    IF ~i.is_active THEN FALSE
    ELSE IF i.last_sync_at = NoTime THEN TRUE
    ELSE now - i.last_sync_at[1] > SyncIntervalHours

\* get_integration raises (not found, access denied, database error), or
\* returns the row; the integration is inactive, or needs no
\* synchronization, or gets sync_status SYNCING before the first commit
SyncBegin ==
    /\ sync.pc = "idle"
    /\ sync.calls < MaxSyncCalls
    /\ \E force \in BOOLEAN, got \in {"row", "NotFoundError"} :
        LET call == [sync EXCEPT !.calls = @ + 1, !.force = force,
                                 !.obj = integration, !.before = integration]
        IN  sync' =
              IF got # "row"
              THEN [call EXCEPT !.pc = "except", !.exc = got]
              ELSE IF ~integration.is_active
              THEN [call EXCEPT !.pc = "except", !.exc = "ValidationError"]
              ELSE IF ~force /\ ~needs_sync(integration, utcnow)
              THEN [call EXCEPT !.pc = "returned", !.sync_started = FALSE]
              ELSE [call EXCEPT !.pc = "commit",
                                !.obj = [@ EXCEPT !.sync_status = "syncing",
                                                  !.sync_error = None]]
    /\ UNCHANGED <<chat, limiter, utcnow, integration>>

\* the commit after sync_status = SYNCING
SyncCommit ==
    /\ sync.pc = "commit"
    /\ integration' = sync.obj
    /\ sync' = [sync EXCEPT !.pc = "perform", !.setSyncing = TRUE]
    /\ UNCHANGED <<chat, limiter, utcnow>>

SyncCommitFails ==
    /\ sync.pc = "commit"
    /\ sync' = [sync EXCEPT !.pc = "except", !.exc = "DBAPIError"]
    /\ UNCHANGED <<chat, limiter, utcnow, integration>>

\* _perform_sync returns its result, success or not, and the call sets the
\* fields of the result before the second commit
SyncPerformed ==
    /\ sync.pc = "perform"
    /\ \E success \in BOOLEAN :
        sync' = [sync EXCEPT
                    !.pc = "commit_result",
                    !.obj = [@ EXCEPT
                        !.sync_status = IF success THEN "success" ELSE "error",
                        !.last_sync_at = At(utcnow),
                        !.sync_error = IF success THEN @ ELSE "Unknown sync error"]]
    /\ UNCHANGED <<chat, limiter, utcnow, integration>>

\* the commit of the result, and the return with sync_started True
SyncResultCommit ==
    /\ sync.pc = "commit_result"
    /\ integration' = sync.obj
    /\ sync' = [sync EXCEPT !.pc = "returned", !.sync_started = TRUE]
    /\ UNCHANGED <<chat, limiter, utcnow>>

SyncResultCommitFails ==
    /\ sync.pc = "commit_result"
    /\ sync' = [sync EXCEPT !.pc = "except", !.exc = "DBAPIError"]
    /\ UNCHANGED <<chat, limiter, utcnow, integration>>

\* the except clause: get_integration, sync_status = ERROR and commit; when
\* one of them raises the bare except passes; then the exception is raised
\* again
SyncExcept ==
    /\ sync.pc = "except"
    /\ \E recovered \in BOOLEAN :
        /\ recovered => sync.exc # "NotFoundError"
        /\ LET obj == [sync.obj EXCEPT !.sync_status = "error",
                                       !.sync_error = sync.exc]
           IN  /\ integration' = IF recovered THEN obj ELSE integration
               /\ sync' = [sync EXCEPT !.pc = "raised",
                                       !.obj = IF recovered THEN obj ELSE @]
    /\ UNCHANGED <<chat, limiter, utcnow>>

\* the caller has the result, or the exception
SyncDone ==
    /\ sync.pc \in {"returned", "raised"}
    /\ sync' = [NoSync EXCEPT !.calls = sync.calls]
    /\ UNCHANGED <<chat, limiter, utcnow, integration>>

HourPasses ==
    /\ utcnow < MaxClock
    /\ utcnow' = utcnow + 1
    /\ UNCHANGED <<chat, limiter, integration, sync>>

\* an Integration active or not, never synchronized or synchronized at 0
SyncInit ==
    /\ ChatInit(0)
    /\ utcnow = 0
    /\ sync = NoSync
    /\ \E active \in BOOLEAN :
          integration \in
              {[NoIntegration EXCEPT !.is_active = active],
               [NoIntegration EXCEPT !.is_active = active,
                                     !.sync_status = "success",
                                     !.last_sync_at = At(0)]}
    /\ seconds = 0
    /\ requests = << >>
    /\ admitted = [u \in LimitedUsers |-> << >>]
    /\ response = NoResponse

NextSync ==
    \/ SyncBegin
    \/ SyncCommit
    \/ SyncCommitFails
    \/ SyncPerformed
    \/ SyncResultCommit
    \/ SyncResultCommitFails
    \/ SyncExcept
    \/ SyncDone
    \/ HourPasses

SpecSync == SyncInit /\ [][NextSync]_vars

\* C29: when a sync_integration call that stored sync_status SYNCING has
\* returned or raised, the stored sync_status is SUCCESS or ERROR; and when
\* a call has returned sync_started False, the stored sync_status and
\* last_sync_at are what they were when the call began.
C29_SyncNeverStuck ==
    /\ (sync.pc \in {"returned", "raised"} /\ sync.setSyncing) =>
          integration.sync_status \in {"success", "error"}
    /\ (sync.pc = "returned" /\ ~sync.sync_started) =>
          /\ integration.sync_status = sync.before.sync_status
          /\ integration.last_sync_at = sync.before.last_sync_at

------------------------------------------------------------------------------
(* RateLimiter: one instance, called by two users.  __call__ has no await:   *)
(* a call is one step.                                                        *)

\* max_requests and window_seconds of the instance, and seconds of its clock
MaxRequests == 2
WindowSeconds == 2
MaxSeconds == 3

integrations == <<utcnow, integration, sync>>

\* the requests of the list that are younger than the window
recent(reqs, now) == SelectSeq(reqs, LAMBDA req_time : now - req_time < WindowSeconds)

limit_exceeded_off_by_one(reqs) == Len(reqs) > MaxRequests

\* len(self.requests[user_key]) >= self.max_requests
limit_exceeded(reqs) == Len(reqs) >= MaxRequests

\* RateLimiter.__call__ of user_key at time now: the dict afterwards and the
\* status of the response
RateLimiter_call(reqs, user_key, now) ==
    LET cleaned == IF user_key \in DOMAIN reqs THEN recent(reqs[user_key], now)
                   ELSE << >>
    IN  IF limit_exceeded(cleaned)
        THEN [requests |-> DictSet(reqs, user_key, cleaned), status_code |-> 429]
        ELSE [requests |-> DictSet(reqs, user_key, Append(cleaned, now)),
              status_code |-> 200]

\* a request of user u goes through the dependency
LimiterCall(u) ==
    LET r == RateLimiter_call(requests, u, seconds)
    IN  /\ requests' = r.requests
        /\ response' = [user |-> u, status_code |-> r.status_code, at |-> seconds]
        /\ admitted' = IF r.status_code = 200
                       THEN [admitted EXCEPT ![u] = Append(@, seconds)]
                       ELSE admitted
        /\ UNCHANGED <<chat, integrations, seconds>>

SecondPasses ==
    /\ seconds < MaxSeconds
    /\ seconds' = seconds + 1
    /\ UNCHANGED <<chat, integrations, requests, admitted, response>>

NextLimiter ==
    \/ \E u \in LimitedUsers : LimiterCall(u)
    \/ SecondPasses

SpecLimiter == InitWith(0) /\ [][NextLimiter]_vars

\* the calls of user u admitted less than a window ago
AdmittedInWindow(u) ==
    {i \in DOMAIN admitted[u] : seconds - admitted[u][i] < WindowSeconds}

\* C30: at every time no user has more than max_requests admitted calls
\* younger than the window; a call answered 429 adds no time to the list of
\* its user; and a call leaves the lists of the other users as they were.
C30_WindowNeverExceeded ==
    /\ [](\A u \in LimitedUsers : Cardinality(AdmittedInWindow(u)) <= MaxRequests)
    /\ [][seconds' = seconds =>
            LET u == response'.user
                old == IF u \in DOMAIN requests THEN requests[u] ELSE << >>
            IN  /\ response'.status_code = 429 =>
                      /\ Len(requests'[u]) <= Len(old)
                      /\ \A i \in DOMAIN requests'[u] :
                            \E j \in DOMAIN old : requests'[u][i] = old[j]
                      /\ admitted' = admitted
                /\ \A v \in DOMAIN requests \ {u} :
                      /\ v \in DOMAIN requests'
                      /\ requests'[v] = requests[v]
                      /\ admitted'[v] = admitted[v]]_vars

\* a call is answered 429 for a user whose window is full again after
\* earlier admitted calls have left it, while another user has requests
\* recorded
C30_Witness ==
    /\ response.status_code = 429
    /\ Len(requests[response.user]) = MaxRequests
    /\ Len(admitted[response.user]) > MaxRequests
    /\ \E v \in DOMAIN requests \ {response.user} : requests[v] # << >>

====
